---- MODULE Spec2Model ----
(***************************************************************************)
(* Verification model of friggs-gate-mimick.                               *)
(*                                                                         *)
(* Part 1: the mobile chat client: ChatScreen.handleSend over the          *)
(*         useWebSocket hook and MobileWebSocketService.                   *)
(* Part 2: the Graph Store (schema.sql) and the ETL Loader.                *)
(* Part 3: the Chunker, the Embedding Indexer and Semantic Search.         *)
(* Part 4: the LLM Navigator, its tools and the conversation history.      *)
(* Part 5: the web chat window (ChatWindow.tsx) and its /sim mode switch.  *)
(* Part 6: the SIM-KB server (sim_kb_server.py) and its chat sessions.     *)
(***************************************************************************)
EXTENDS Integers, Sequences, FiniteSets, TLC

VARIABLES
    \* ---- ChatScreen (React state) ----
    messages,           \* useState<Message[]>: sequence of message records
    input,              \* useState(''): text of the input field
    isLoading,          \* useState(false)
    alert,              \* title of the last Alert.alert shown ("none" before any)
    turn,               \* per handleSend invocation: the pending promise and its listener
    nTurns,             \* number of handleSend invocations that passed both guards
    mounted,            \* the screen's useWebSocket effects have run
    \* ---- useWebSocket hook ----
    uiStatus,           \* useState(connectionService.status), refreshed by the 100 ms poll
    \* ---- MobileWebSocketService ----
    ws,                 \* this.ws: 0 is null, otherwise a socket id
    svcStatus,          \* this._status
    reconnectAttempts,  \* this.reconnectAttempts
    timers,             \* number of setTimeout(() => this.connect()) still scheduled
    lastCall,           \* history: the last call made on the service from outside
    lastCloseCode,      \* history: event.code of the last close event (0 before any)
    \* ---- environment: the WebSocket objects and the Rainbow Bridge server ----
    sock,               \* readyState of every WebSocket object ("FREE": closed and collected)
    reqQ,               \* per socket: requests the server has received and not answered
    \* ---- Graph Store and ETL Loader ----
    db,                 \* the SQLite database: one sequence of rows per table
    kb,                 \* the knowledge base directory: the source files
    etlPc,              \* the step the loader is at ("idle" between runs)
    etlRuns,            \* loader runs completed
    etlCounts,          \* history: the table sizes at the end of every run
    \* ---- Embedding Indexer and Semantic Search ----
    idxPos,             \* index_documents.py: documents handled in the current run
    idxRuns,            \* runs of index_documents.py completed
    query,              \* arguments of the last semantic_search call
    results,            \* what the last semantic_search call returned
    \* ---- LLM Navigator and Conversation Session ----
    navPc,              \* "idle", "tools" (executing tool calls) or "synth"
    ask,                \* the user question of the current turn
    calls,              \* the tool calls of the current turn, with their results
    navTurns,           \* questions asked so far
    history,            \* conversation history
    shown,              \* what the chat interface displayed last
    nCommands,          \* stats, help and clear commands typed so far
    inProgress,         \* positions in the turn's plan of the tool calls not yet returned
    answers,            \* synthesized responses produced so far
    \* ---- ChatWindow (web): the middle panel's message router ----
    isSimMode,          \* useState(false): the /sim toggle
    typedLog,           \* history: every message the user submitted, in order
    sent,               \* history: every request a backend received, in order
    \* ---- sim_kb_server: the conversation sessions ----
    sessionHistory,     \* per session id: the conversation history kept for it
    served,             \* history: every request the server handled, in order
    \* ---- cosine_similarity on its own ----
    vecA,               \* the first embedding vector
    vecB,               \* the second embedding vector
    similarity,         \* the similarity computed for the pair, in both orders
    \* ---- Embedding Indexer: the batch, chunk by chunk ----
    chunkPos,           \* chunks of the current document handled so far
    attempts,           \* failed embedding calls for the current chunk
    skipped,            \* log: the chunks given up on
    \* ---- ETL Loader: source files that cannot be read ----
    broken,             \* the paths of the malformed source files
    warnings,           \* log: the files the loader skipped
    \* ---- Chunker on its own ----
    docText,            \* the text handed to chunk_text
    chunkOut            \* whether chunk_text has returned, and the chunks it returned

chatVars == <<messages, input, isLoading, alert, turn, nTurns, mounted, uiStatus,
              ws, svcStatus, reconnectAttempts, timers, lastCall, lastCloseCode,
              sock, reqQ>>

storeVars == <<db, kb, etlPc, etlRuns, etlCounts>>

searchVars == <<idxPos, idxRuns, query, results>>

navVars == <<navPc, ask, calls, navTurns, history, shown, nCommands, inProgress, answers>>

windowVars == <<isSimMode, typedLog, sent>>

serverVars == <<sessionHistory, served>>

cosineVars == <<vecA, vecB, similarity>>

batchVars == <<chunkPos, attempts, skipped>>

faultVars == <<broken, warnings>>

chunkerVars == <<docText, chunkOut>>

vars == <<chatVars, storeVars, searchVars, navVars, windowVars, serverVars, cosineVars,
          batchVars, faultVars, chunkerVars>>

\* what an action of one part leaves alone
ChatOnly ==
    UNCHANGED <<storeVars, searchVars, navVars, windowVars, serverVars, cosineVars, batchVars, faultVars, chunkerVars>>
StoreOnly ==
    UNCHANGED <<chatVars, searchVars, navVars, windowVars, serverVars, cosineVars, batchVars, faultVars, chunkerVars>>
SearchOnly ==
    UNCHANGED <<chatVars, kb, etlPc, etlRuns, etlCounts, navVars, windowVars, serverVars,
                cosineVars, batchVars, faultVars, chunkerVars>>
\* a query path that may write to the store
NavWritingStore ==
    /\ UNCHANGED <<chatVars, kb, etlPc, etlRuns, etlCounts, searchVars, windowVars,
                   serverVars, cosineVars, batchVars, faultVars, chunkerVars>>
    /\ db' \in {db, [db EXCEPT !.embeddings = <<>>]}
NavOnly ==
    UNCHANGED <<chatVars, storeVars, searchVars, windowVars, serverVars, cosineVars, batchVars, faultVars, chunkerVars>>
WindowOnly ==
    UNCHANGED <<chatVars, storeVars, searchVars, navVars, serverVars, cosineVars, batchVars, faultVars, chunkerVars>>
CosineOnly ==
    UNCHANGED <<chatVars, storeVars, searchVars, navVars, windowVars, serverVars,
                batchVars, faultVars, chunkerVars>>
BatchOnly ==
    UNCHANGED <<chatVars, kb, etlPc, etlRuns, etlCounts, query, results, navVars,
                windowVars, serverVars, cosineVars, faultVars, chunkerVars>>
ServerOnly ==
    UNCHANGED <<chatVars, storeVars, searchVars, navVars, windowVars, cosineVars, batchVars, faultVars, chunkerVars>>
TolerantOnly ==
    UNCHANGED <<chatVars, searchVars, navVars, windowVars, serverVars, cosineVars,
                batchVars, chunkerVars>>

-----------------------------------------------------------------------------
(* Bounds of the model *)

MaxSessions == 2    \* chat sessions the SIM-KB server holds
MaxTurns == 2       \* handleSend invocations explored
MaxSockets == 2     \* WebSocket objects alive at the same time
MaxTimers == 1      \* reconnect timeouts scheduled at the same time
MaxEtlRuns == 2     \* runs of the loader against the same knowledge base

(* Program constants *)

maxReconnectAttempts == 5
ContentLimit == 8000
NormalClosure == 1000
AbnormalClosure == 1006

SessionIds == 1..MaxSessions
Turns == 1..MaxTurns
Sockets == 1..MaxSockets
CloseCodes == {NormalClosure, AbnormalClosure}
Inputs == {" ", "q"}
ResponseKinds == {"ok", "fail", "garbage"}

\* String.prototype.trim on the inputs of the model
trim(s) == IF s = " " THEN "" ELSE s

\* useWebSocket: isConnected: status === 'connected'
isConnected == uiStatus = "connected"

NoTurn == [state |-> "none", sock |-> 0, listening |-> FALSE, got |-> 0]

-----------------------------------------------------------------------------
(* MobileWebSocketService *)

\* connect(): returns at once when this.ws is OPEN, otherwise replaces this.ws
\* by a new WebSocket (whatever the old one was doing).
connect ==
    IF ws # 0 /\ sock[ws] = "OPEN"
    THEN UNCHANGED <<ws, svcStatus, sock>>
    ELSE \E s \in Sockets :
            /\ sock[s] = "FREE"
            /\ \A r \in Sockets : sock[r] = "FREE" => s <= r
            /\ svcStatus' = "connecting"
            /\ ws' = s
            /\ sock' = [sock EXCEPT ![s] = "CONNECTING"]

\* connect() called through the hook's connect
Connect ==
    /\ ChatOnly
    /\ connect
    /\ lastCall' = "connect"
    /\ UNCHANGED <<messages, input, isLoading, alert, turn, nTurns, mounted, uiStatus,
                   reconnectAttempts, timers, reqQ, lastCloseCode>>

\* useWebSocket: useEffect(() => { connectionService.connect(); ... }) on mount
Mount ==
    /\ ChatOnly
    /\ ~mounted
    /\ mounted' = TRUE
    /\ connect
    /\ lastCall' = "connect"
    /\ UNCHANGED <<messages, input, isLoading, alert, turn, nTurns, uiStatus,
                   reconnectAttempts, timers, reqQ, lastCloseCode>>

\* setTimeout(() => this.connect(), this.reconnectDelay) fires
ReconnectTimer ==
    /\ ChatOnly
    /\ timers > 0
    /\ timers' = timers - 1
    /\ connect
    /\ UNCHANGED <<messages, input, isLoading, alert, turn, nTurns, mounted, uiStatus,
                   reconnectAttempts, reqQ,
                   lastCall, lastCloseCode>>

\* ws.onopen
OnOpen(s) ==
    /\ ChatOnly
    /\ sock[s] = "CONNECTING"
    /\ sock' = [sock EXCEPT ![s] = "OPEN"]
    /\ svcStatus' = "connected"
    /\ reconnectAttempts' = 0
    /\ UNCHANGED <<messages, input, isLoading, alert, turn, nTurns, mounted, uiStatus,
                   ws, timers, reqQ,
                   lastCall, lastCloseCode>>

\* ws.onerror; the socket then closes
OnError(s) ==
    /\ ChatOnly
    /\ sock[s] \in {"CONNECTING", "OPEN"}
    /\ sock' = [sock EXCEPT ![s] = "CLOSING"]
    /\ svcStatus' = "error"
    /\ UNCHANGED <<messages, input, isLoading, alert, turn, nTurns, mounted, uiStatus,
                   ws, reconnectAttempts, timers, reqQ,
                   lastCall, lastCloseCode>>

\* a service that reconnects after any close, clean or not
reconnect_after_any_close(code, tries) == tries < maxReconnectAttempts

\* ws.onclose: auto-reconnect unless clean disconnect
auto_reconnect(code, tries) ==
    code # NormalClosure /\ tries < maxReconnectAttempts

\* The listeners of a closed socket never run again.
DropListeners(s) ==
    [t \in Turns |-> IF turn[t].sock = s
                     THEN [turn[t] EXCEPT !.sock = 0]
                     ELSE turn[t]]

\* ws.onclose(event): the socket is closed, by the peer, by an error or by close()
OnClose(s, code) ==
    /\ ChatOnly
    /\ sock[s] # "FREE"
    /\ sock' = [sock EXCEPT ![s] = "FREE"]
    /\ reqQ' = [reqQ EXCEPT ![s] = <<>>]
    /\ turn' = DropListeners(s)
    /\ svcStatus' = "disconnected"
    /\ ws' = 0
    /\ lastCloseCode' = code
    /\ IF auto_reconnect(code, reconnectAttempts)
       THEN /\ timers < MaxTimers
            /\ reconnectAttempts' = reconnectAttempts + 1
            /\ timers' = timers + 1
       ELSE UNCHANGED <<reconnectAttempts, timers>>
    /\ UNCHANGED <<messages, input, isLoading, alert, nTurns, mounted, uiStatus, lastCall>>

\* disconnect()
Disconnect ==
    /\ ChatOnly
    /\ IF ws # 0
       THEN sock' = [sock EXCEPT ![ws] = IF @ = "FREE" THEN "FREE" ELSE "CLOSING"]
       ELSE UNCHANGED sock
    /\ ws' = 0
    /\ svcStatus' = "disconnected"
    /\ reconnectAttempts' = 0
    /\ lastCall' = "disconnect"
    /\ UNCHANGED <<messages, input, isLoading, alert, turn, nTurns, mounted, uiStatus,
                   timers, reqQ, lastCloseCode>>

\* useWebSocket: setInterval(() => setStatus(connectionService.status), 100)
PollStatus ==
    /\ ChatOnly
    /\ mounted
    /\ uiStatus' = svcStatus
    /\ UNCHANGED <<messages, input, isLoading, alert, turn, nTurns, mounted,
                   ws, svcStatus, reconnectAttempts, timers, sock, reqQ,
                   lastCall, lastCloseCode>>

-----------------------------------------------------------------------------
(* ChatScreen *)

\* TextInput onChangeText={setInput}
TypeInput(text) ==
    /\ ChatOnly
    /\ input' = text
    /\ UNCHANGED <<messages, isLoading, alert, turn, nTurns, mounted, uiStatus,
                   ws, svcStatus, reconnectAttempts, timers, sock, reqQ,
                   lastCall, lastCloseCode>>

UserMessage(t) == [role |-> "user", turn |-> t, content |-> t]
AssistantMessage(t, c) == [role |-> "assistant", turn |-> t, content |-> c]

\* sendMessage(content) throws unless this.ws is OPEN
CanSend == ws # 0 /\ sock[ws] = "OPEN"

\* handleSend
handleSend ==
    IF trim(input) = ""
    THEN UNCHANGED chatVars
    ELSE IF ~isConnected
    THEN /\ alert' = "Connection Error"
         /\ UNCHANGED <<messages, input, isLoading, turn, nTurns, mounted, uiStatus,
                        ws, svcStatus, reconnectAttempts, timers, sock, reqQ,
                        lastCall, lastCloseCode>>
    ELSE /\ nTurns < MaxTurns
         /\ nTurns' = nTurns + 1
         /\ messages' = Append(messages, UserMessage(nTurns + 1))
         /\ input' = ""
         /\ IF CanSend
            THEN \* the promise is pending: listener added, request sent
                 /\ isLoading' = TRUE
                 /\ turn' = [turn EXCEPT ![nTurns + 1] =
                        [state |-> "pending", sock |-> ws, listening |-> TRUE, got |-> 0]]
                 /\ reqQ' = [reqQ EXCEPT ![ws] = Append(@, nTurns + 1)]
                 /\ UNCHANGED alert
            ELSE \* sendMessage throws: catch, then finally
                 /\ isLoading' = FALSE
                 /\ turn' = [turn EXCEPT ![nTurns + 1] =
                        [state |-> "failed", sock |-> 0, listening |-> FALSE, got |-> 0]]
                 /\ alert' = "Send Failed"
                 /\ UNCHANGED reqQ
         /\ UNCHANGED <<mounted, uiStatus, ws, svcStatus, reconnectAttempts, timers, sock,
                      lastCall, lastCloseCode>>

\* TouchableOpacity onPress={handleSend}, disabled={!isConnected || !input.trim() || isLoading}
PressSend ==
    /\ ChatOnly
    /\ ~(~isConnected \/ trim(input) = "" \/ isLoading)
    /\ handleSend

\* TextInput onSubmitEditing={handleSend}
SubmitEditing == handleSend /\ ChatOnly

\* The turns whose handleResponse listener receives a message event of socket s
Listeners(s) == {t \in Turns : turn[t].sock = s /\ turn[t].listening}

\* handleResponse on one listener, for a response of the given kind carrying content c
Settle(t, kind, c) ==
    IF kind = "garbage"
    THEN \* JSON.parse throws: reject, the listener stays
         [turn[t] EXCEPT !.state = IF @ = "pending" THEN "failed" ELSE @]
    ELSE [turn[t] EXCEPT !.listening = FALSE,
                         !.state = IF @ = "pending"
                                   THEN (IF kind = "ok" THEN "answered" ELSE "failed")
                                   ELSE @,
                         !.got = IF turn[t].state = "pending" /\ kind = "ok" THEN c ELSE @]

RECURSIVE AppendAnswers(_, _, _)
\* the continuations of handleSend after the await, in listener order
AppendAnswers(msgs, ts, c) ==
    IF ts = {} THEN msgs
    ELSE LET t == CHOOSE x \in ts : \A y \in ts : x <= y
         IN AppendAnswers(Append(msgs, AssistantMessage(t, c)), ts \ {t}, c)

\* The server answers the oldest request of socket s; the message event reaches
\* every handleResponse listener of that socket.
OnMessage(s, kind) ==
    /\ ChatOnly
    /\ sock[s] = "OPEN"
    /\ reqQ[s] # <<>>
    /\ LET c == Head(reqQ[s])
           ls == Listeners(s)
           settled == {t \in ls : turn[t].state = "pending"}
       IN /\ reqQ' = [reqQ EXCEPT ![s] = Tail(@)]
          /\ turn' = [t \in Turns |-> IF t \in ls THEN Settle(t, kind, c) ELSE turn[t]]
          /\ messages' = IF kind = "ok" THEN AppendAnswers(messages, settled, c)
                         ELSE messages
          /\ alert' = IF kind # "ok" /\ settled # {} THEN "Send Failed" ELSE alert
          /\ isLoading' = IF settled # {} THEN FALSE ELSE isLoading
    /\ UNCHANGED <<input, nTurns, mounted, uiStatus, ws, svcStatus, reconnectAttempts,
                   timers, sock, lastCall, lastCloseCode>>

-----------------------------------------------------------------------------
ChatInit ==
    /\ messages = <<>>
    /\ input = ""
    /\ isLoading = FALSE
    /\ alert = "none"
    /\ turn = [t \in Turns |-> NoTurn]
    /\ nTurns = 0
    /\ mounted = FALSE
    /\ uiStatus = "disconnected"
    /\ ws = 0
    /\ svcStatus = "disconnected"
    /\ reconnectAttempts = 0
    /\ timers = 0
    /\ lastCall = "none"
    /\ lastCloseCode = 0
    /\ sock = [s \in Sockets |-> "FREE"]
    /\ reqQ = [s \in Sockets |-> <<>>]

-----------------------------------------------------------------------------
(***************************************************************************)
(* Part 2: the Graph Store (schema.sql) and the ETL Loader (data_loader).  *)
(* A table is the sequence of its rows in insertion order; a row's id is   *)
(* its AUTOINCREMENT primary key. Names are sequences of words.            *)
(***************************************************************************)

EmptyStore ==
    [organizations          |-> <<>>,
     products               |-> <<>>,
     roles                  |-> <<>>,
     documents              |-> <<>>,
     document_org_links     |-> <<>>,
     document_product_links |-> <<>>,
     offers                 |-> <<>>,
     product_offer_links    |-> <<>>,
     embeddings             |-> <<>>,
     hemlix_registry        |-> <<>>]

\* the tables whose rows carry a hemlix_id
EntityTables == {"organizations", "products", "roles", "documents", "offers"}

\* db_manager.execute: INSERT, returning cursor.lastrowid; no table of
\* schema.sql constrains anything but id and hemlix_id.
InsertRow(table, row) == Append(table, [id |-> Len(table) + 1] @@ row)

\* the id of the row of a table whose field has the given value, 0 when there is none
FindId(table, field, value) ==
    IF \E i \in 1..Len(table) : table[i][field] = value
    THEN table[CHOOSE i \in 1..Len(table) :
                 /\ table[i][field] = value
                 /\ \A j \in 1..(i - 1) : table[j][field] # value].id
    ELSE 0

\* an identifier made of the row id alone
hemlix_id_of_row(d, table_name) == <<Len(d[table_name]) + 1>>

\* a new Hemlix ID: the entity's table and its row id
new_hemlix_id(d, table_name) == <<table_name, Len(d[table_name]) + 1>>

\* an entity is created: its row, with a new hemlix_id, and its row in the
\* global identifier registry
create_entity(d, table_name, row) ==
    LET hemlix_id == new_hemlix_id(d, table_name)
        created == [d EXCEPT ![table_name] =
                       InsertRow(@, [hemlix_id |-> hemlix_id] @@ row)]
    IN [created EXCEPT !.hemlix_registry =
           InsertRow(@, [hemlix_id   |-> hemlix_id,
                         entity_type |-> table_name,
                         entity_id   |-> Len(created[table_name])])]

\* Graph Store upsert_entity: look the natural key up before inserting
upsert_entity(d, table_name, field, row) ==
    IF FindId(d[table_name], field, row[field]) # 0 THEN d
    ELSE create_entity(d, table_name, row)

RECURSIVE UpsertAll(_, _, _, _)
UpsertAll(d, table_name, field, rows) ==
    IF rows = <<>> THEN d
    ELSE UpsertAll(upsert_entity(d, table_name, field, Head(rows)),
                   table_name, field, Tail(rows))

\* The product enumeration of the loader
ProductTypes == <<"Life", "Annuity", "ABLTC", "Disability">>

\* protective_life_*.json -> "Protective Life": the display name of a file-name slug
TitleCase(w) ==
    CASE w = "protective" -> "Protective"
      [] w = "life"       -> "Life"
      [] w = "lincoln"    -> "Lincoln"
      [] w = "financial"  -> "Financial"
      [] w = "augusta"    -> "Augusta"
      [] OTHER            -> w

DisplayName(slug) == [i \in 1..Len(slug) |-> TitleCase(slug[i])]

\* 1. Load Products
load_products(d) ==
    UpsertAll(d, "products", "name",
              [i \in 1..Len(ProductTypes) |->
                  [name |-> ProductTypes[i], product_type |-> ProductTypes[i]]])

\* 2. Load Organizations: extracted from the scorecard file names
load_organizations(d, files) ==
    UpsertAll(d, "organizations", "name",
              [i \in 1..Len(files.scorecards) |->
                  [name         |-> files.scorecards[i].carrier,
                   display_name |-> DisplayName(files.scorecards[i].carrier)]])

\* 3. Load Team Roles: BPSer_team.json
load_roles(d, files) ==
    UpsertAll(d, "roles", "role_short_name", files.team)

\* A Document row of a source file
DocumentRow(f, type) ==
    [title         |-> f.title,
     document_type |-> type,
     content       |-> f.text,
     data          |-> f.data,
     metadata      |-> [carrier |-> f.carrier, product |-> f.product,
                        question |-> f.question],
     file_path     |-> f.path]

LoadDocuments(d, fs, type) ==
    UpsertAll(d, "documents", "file_path",
              [i \in 1..Len(fs) |-> DocumentRow(fs[i], type)])

\* 4. Load Carrier Scorecards: carrier_scorecards/json/*.json
load_carrier_scorecards(d, files) == LoadDocuments(d, files.scorecards, "carrier_scorecard")

\* load_question_scorecards: question_scorecards/json/
load_question_scorecards(d, files) ==
    LoadDocuments(d, files.question_scorecards, "question_scorecard")

\* 5. Load Research Documents: research/*_DR*.md
load_research(d, files) == LoadDocuments(d, files.research, "research")

\* load_production_history: production_history_2026.json, one series per carrier
load_production_history(d, files) ==
    LoadDocuments(d, files.production, "production_history")

RECURSIVE LinkDocuments(_, _)
\* 6. Create Relationships: one document_org_links row per document with a
\* known carrier, one document_product_links row per document with a product
LinkDocuments(d, i) ==
    IF i > Len(d.documents) THEN d
    ELSE LET doc == d.documents[i]
             org == FindId(d.organizations, "name", doc.metadata.carrier)
             prd == FindId(d.products, "name", doc.metadata.product)
             d1  == IF org = 0 THEN d
                    ELSE [d EXCEPT !.document_org_links =
                            InsertRow(@, [document_id       |-> doc.id,
                                          organization_id   |-> org,
                                          relationship_type |-> doc.document_type])]
             d2  == IF prd = 0 THEN d1
                    ELSE [d1 EXCEPT !.document_product_links =
                            InsertRow(@, [document_id |-> doc.id,
                                          product_id  |-> prd])]
         IN LinkDocuments(d2, i + 1)

create_relationships(d) == LinkDocuments(d, 1)

\* DataLoader.load_all
load_all(d, files) ==
    create_relationships(
      load_production_history(
        load_research(
          load_question_scorecards(
            load_carrier_scorecards(
              load_roles(
                load_organizations(load_products(d), files), files), files), files),
          files), files))

\* stats: the number of rows of every table
Counts(d) == [t \in DOMAIN d |-> Len(d[t])]

-----------------------------------------------------------------------------
(* The knowledge base directory of the model *)

Questions(n, r, pn, pr) ==
    <<[question |-> <<"Business", "Confidence">>,
       n_score |-> n, rank_current |-> r, py_n_score |-> pn, py_rank |-> pr]>>

ScorecardFile(slug, product, n, r, pn, pr) ==
    [path     |-> <<"carrier_scorecards", slug, product>>,
     title    |-> DisplayName(slug) \o <<product, "Scorecard">>,
     carrier  |-> slug,
     product  |-> product,
     question |-> <<>>,
     text     |-> <<"a", "b">>,
     data     |-> Questions(n, r, pn, pr)]

AllScorecardFiles ==
    <<ScorecardFile(<<"protective", "life">>, "Life", 70, 12, 75, 9),
      ScorecardFile(<<"protective", "life">>, "Annuity", 96, 2, 90, 2),
      ScorecardFile(<<"lincoln", "financial">>, "Life", 80, 5, 60, 11),
      ScorecardFile(<<"augusta", "financial">>, "Annuity", 50, 20, 55, 18)>>

ResearchFile(slug, dr, text) ==
    [path     |-> <<"research", slug, dr>>,
     title    |-> DisplayName(slug) \o <<dr>>,
     carrier  |-> slug,
     product  |-> "",
     question |-> <<>>,
     text     |-> text,
     data     |-> <<>>]

AllResearchFiles ==
    <<ResearchFile(<<"protective", "life">>, "DR1", <<"a", "a", "b">>),
      ResearchFile(<<"lincoln", "financial">>, "DR2", <<"b", "a">>)>>

QuestionScorecardFile(question, product, ranking) ==
    [path     |-> <<"question_scorecards", question, product>>,
     title    |-> question \o <<product>>,
     carrier  |-> <<>>,
     product  |-> product,
     question |-> question,
     text     |-> <<"b">>,
     data     |-> ranking]

AllQuestionScorecardFiles ==
    <<QuestionScorecardFile(<<"Underwriting", "Medical">>, "Life",
          <<[carrier |-> <<"Lincoln", "Financial">>, n_score |-> 80, rank_current |-> 5],
            [carrier |-> <<"Protective", "Life">>, n_score |-> 70, rank_current |-> 12]>>)>>

ProductionFile(slug) ==
    [path     |-> <<"production_history", slug>>,
     title    |-> DisplayName(slug) \o <<"Production", "History">>,
     carrier  |-> slug,
     product  |-> "",
     question |-> <<>>,
     text     |-> <<"a">>,
     data     |-> <<[year |-> 2025, production |-> 10], [year |-> 2026, production |-> 12]>>]

AllProductionFiles == <<ProductionFile(<<"protective", "life">>)>>

TeamFile ==
    <<[role_name |-> <<"Chief", "Product", "Officer">>, role_short_name |-> "CPO",
       goal |-> "Analyze product competitiveness", backstory |-> "cpo backstory",
       temperature |-> 3],
      [role_name |-> <<"Chief", "Executive", "Officer">>, role_short_name |-> "CEO",
       goal |-> "Synthesize all reports", backstory |-> "ceo backstory",
       temperature |-> 5]>>

Pick(files, chosen) == SelectSeq(files, LAMBDA f : f \in chosen)
Range(q) == {q[i] : i \in 1..Len(q)}

\* Every knowledge base the loader is run against
KnowledgeBases ==
    {[scorecards          |-> Pick(AllScorecardFiles, sc),
      research            |-> Pick(AllResearchFiles, rs),
      question_scorecards |-> AllQuestionScorecardFiles,
      production          |-> AllProductionFiles,
      team                |-> TeamFile] :
        sc \in SUBSET Range(AllScorecardFiles), rs \in SUBSET Range(AllResearchFiles)}

FullKnowledgeBase ==
    [scorecards          |-> AllScorecardFiles,
     research            |-> AllResearchFiles,
     question_scorecards |-> AllQuestionScorecardFiles,
     production          |-> AllProductionFiles,
     team                |-> TeamFile]

-----------------------------------------------------------------------------
(* setup_database.py: one action per step of DataLoader.load_all *)

\* a loader that loads the carrier scorecards before the organizations
EtlStepsDocumentsFirst ==
    <<"products", "carrier_scorecards", "organizations", "roles",
      "question_scorecards", "research", "production_history", "links">>

\* load_all calls the steps in this order
EtlSteps == <<"products", "organizations", "roles", "carrier_scorecards",
              "question_scorecards", "research", "production_history", "links">>

StepAfter(step) ==
    LET i == CHOOSE k \in 1..Len(EtlSteps) : EtlSteps[k] = step
    IN IF i = Len(EtlSteps) THEN "idle" ELSE EtlSteps[i + 1]

RunStep(step, d, files) ==
    CASE step = "products"            -> load_products(d)
      [] step = "organizations"       -> load_organizations(d, files)
      [] step = "roles"               -> load_roles(d, files)
      [] step = "carrier_scorecards"  -> load_carrier_scorecards(d, files)
      [] step = "question_scorecards" -> load_question_scorecards(d, files)
      [] step = "research"            -> load_research(d, files)
      [] step = "production_history"  -> load_production_history(d, files)
      [] step = "links"               -> create_relationships(d)

\* python setup_database.py: schema.sql (CREATE TABLE IF NOT EXISTS), then the loader
StartLoad ==
    /\ StoreOnly
    /\ etlPc = "idle"
    /\ etlRuns < MaxEtlRuns
    /\ etlPc' = "products"
    /\ UNCHANGED <<db, kb, etlRuns, etlCounts>>

LoadStep(step) ==
    /\ StoreOnly
    /\ etlPc = step
    /\ db' = RunStep(step, db, kb)
    /\ etlPc' = StepAfter(step)
    /\ IF step = "links"
       THEN /\ etlRuns' = etlRuns + 1
            /\ etlCounts' = Append(etlCounts, Counts(db'))
       ELSE UNCHANGED <<etlRuns, etlCounts>>
    /\ UNCHANGED kb

\* no indexing run and no search has happened
SearchIdle ==
    /\ idxPos = 0
    /\ idxRuns = 0
    /\ query = [text |-> <<>>, limit |-> 0]
    /\ results = <<>>

\* the web chat window has just been opened
WindowIdle ==
    /\ isSimMode = FALSE
    /\ typedLog = <<>>
    /\ sent = <<>>

NotChunked == [done |-> FALSE, chunks |-> <<>>]

\* the chunker has not been called on its own
ChunkerIdle ==
    /\ docText = <<>>
    /\ chunkOut = NotChunked

\* every source file can be read
FaultIdle ==
    /\ broken = {}
    /\ warnings = <<>>

\* no batch of the indexer is under way
BatchIdle ==
    /\ chunkPos = 0
    /\ attempts = 0
    /\ skipped = <<>>

NoVector == <<>>

\* no pair of vectors is being compared
CosineIdle ==
    /\ vecA = NoVector
    /\ vecB = NoVector
    /\ similarity = <<>>

\* the server has just been started
ServerIdle ==
    /\ sessionHistory = [s \in SessionIds |-> <<>>]
    /\ served = <<>>

Nothing == [cmd |-> "none", output |-> <<>>]

NoQuestion == [carrier |-> <<>>, product |-> "", question |-> <<>>, period |-> ""]

\* no question has been asked
NavIdle ==
    /\ navPc = "idle"
    /\ ask = NoQuestion
    /\ calls = <<>>
    /\ navTurns = 0
    /\ history = <<>>
    /\ shown = Nothing
    /\ nCommands = 0
    /\ inProgress = {}
    /\ answers = 0

EtlNext ==
    \/ StartLoad
    \/ \E step \in Range(EtlSteps) : LoadStep(step)

EtlInit ==
    /\ ChatInit
    /\ db = EmptyStore
    /\ kb \in KnowledgeBases
    /\ etlPc = "idle"
    /\ etlRuns = 0
    /\ etlCounts = <<>>
    /\ SearchIdle
    /\ NavIdle
    /\ WindowIdle
    /\ ServerIdle
    /\ CosineIdle
    /\ BatchIdle
    /\ FaultIdle
    /\ ChunkerIdle

EtlSpec == EtlInit /\ [][EtlNext]_vars

-----------------------------------------------------------------------------
(* The chat client alone: the store is not involved *)

StoreIdle ==
    /\ db = EmptyStore
    /\ kb = FullKnowledgeBase
    /\ etlPc = "idle"
    /\ etlRuns = 0
    /\ etlCounts = <<>>

ChatSpecInit ==
    /\ ChatInit
    /\ StoreIdle
    /\ SearchIdle
    /\ NavIdle
    /\ WindowIdle
    /\ ServerIdle
    /\ CosineIdle
    /\ BatchIdle
    /\ FaultIdle
    /\ ChunkerIdle

ChatNext ==
    \/ Mount
    \/ ReconnectTimer
    \/ \E s \in Sockets : OnOpen(s)
    \/ \E s \in Sockets : OnError(s)
    \/ \E s \in Sockets, code \in CloseCodes : OnClose(s, code)
    \/ PollStatus
    \/ \E text \in Inputs : TypeInput(text)
    \/ PressSend
    \/ SubmitEditing
    \/ \E s \in Sockets, kind \in ResponseKinds : OnMessage(s, kind)

ChatSpec == ChatSpecInit /\ [][ChatNext]_vars

\* MobileWebSocketService on its own: connect() and disconnect() called from
\* outside in any order, the reconnect timeouts, and the events of its sockets
ServiceNext ==
    \/ Connect
    \/ Disconnect
    \/ ReconnectTimer
    \/ \E s \in Sockets : OnOpen(s)
    \/ \E s \in Sockets : OnError(s)
    \/ \E s \in Sockets, code \in CloseCodes : OnClose(s, code)

ServiceSpec == ChatSpecInit /\ [][ServiceNext]_vars

\* a connection attempt ends in onopen or onclose; a failed socket is closed
SocketSettles(s) ==
    /\ sock[s] \in {"CONNECTING", "CLOSING"}
    /\ (OnOpen(s) \/ \E code \in CloseCodes : OnClose(s, code))

\* Scheduling the runtime guarantees: a scheduled timeout fires, the status poll
\* keeps running, a connection attempt ends, and the server answers a request
\* for as long as its socket is open.
FairChatSpec ==
    /\ ChatSpec
    /\ WF_vars(ReconnectTimer)
    /\ WF_vars(PollStatus)
    /\ \A s \in Sockets : WF_vars(SocketSettles(s))
    /\ \A s \in Sockets : WF_vars(\E kind \in ResponseKinds : OnMessage(s, kind))

-----------------------------------------------------------------------------
(* The loader over a knowledge base in which some source files are malformed *)

MaxBroken == 2       \* malformed source files in the knowledge base

TeamPath == <<"BPSer_team.json">>

\* the source files a step of the loader reads
FilesOf(files, step) ==
    CASE step = "carrier_scorecards"  -> files.scorecards
      [] step = "question_scorecards" -> files.question_scorecards
      [] step = "research"            -> files.research
      [] step = "production_history"  -> files.production
      [] OTHER                        -> <<>>

DocumentSteps ==
    {"carrier_scorecards", "question_scorecards", "research", "production_history"}

SourcePaths(files) ==
    UNION {{FilesOf(files, step)[i].path : i \in 1..Len(FilesOf(files, step))} :
              step \in DocumentSteps}

\* the knowledge base as the loader can read it: the malformed files left out
Readable(files, bad) ==
    LET good(f) == f.path \notin bad
    IN [scorecards          |-> SelectSeq(files.scorecards, good),
        research            |-> SelectSeq(files.research, good),
        question_scorecards |-> SelectSeq(files.question_scorecards, good),
        production          |-> SelectSeq(files.production, good),
        team                |-> IF TeamPath \in bad THEN <<>> ELSE files.team]

\* the warnings of a step: the paths of its files that were skipped
SkippedIn(files, step, bad) ==
    LET fs == SelectSeq(FilesOf(files, step), LAMBDA f : f.path \in bad)
    IN [i \in 1..Len(fs) |-> fs[i].path]

\* a loader that gives up on any unreadable file
fatal_on_any(step, bad) == step = "roles" /\ bad # {}

\* the load fails as a whole when the role fixtures cannot be read (the
\* product fixtures are the enumeration in the loader itself)
fatal(step, bad) == step = "roles" /\ TeamPath \in bad

TolerantLoadStep(step) ==
    /\ TolerantOnly
    /\ etlPc = step
    /\ IF fatal(step, broken)
       THEN /\ etlPc' = "failed"
            /\ UNCHANGED <<db, etlRuns, etlCounts, warnings>>
       ELSE /\ db' = RunStep(step, db, Readable(kb, broken))
            /\ warnings' = warnings \o SkippedIn(kb, step, broken)
            /\ etlPc' = StepAfter(step)
            /\ IF step = "links"
               THEN /\ etlRuns' = etlRuns + 1
                    /\ etlCounts' = Append(etlCounts, Counts(db'))
               ELSE UNCHANGED <<etlRuns, etlCounts>>
    /\ UNCHANGED <<kb, broken>>

TolerantInit ==
    /\ ChatInit
    /\ StoreIdle
    /\ SearchIdle
    /\ NavIdle
    /\ WindowIdle
    /\ ServerIdle
    /\ CosineIdle
    /\ BatchIdle
    /\ ChunkerIdle
    /\ broken \in {bad \in SUBSET (SourcePaths(FullKnowledgeBase) \cup {TeamPath}) :
                      Cardinality(bad) <= MaxBroken}
    /\ warnings = <<>>

TolerantNext ==
    \/ StartLoad
    \/ \E step \in Range(EtlSteps) : TolerantLoadStep(step)

TolerantSpec == TolerantInit /\ [][TolerantNext]_vars

-----------------------------------------------------------------------------
(***************************************************************************)
(* Part 3: the Chunker, the Embedding Indexer (index_documents.py) and     *)
(* Semantic Search (semantic_search.py). A text is a sequence of           *)
(* characters.                                                             *)
(***************************************************************************)

ChunkSize == 2       \* characters per chunk (1000 in the program)
ChunkOverlap == 1    \* characters adjacent chunks share (200 in the program)
MaxTextLen == 5      \* longest document text indexed
MaxLimit == 2        \* largest limit a search is called with
MaxIndexRuns == 2    \* runs of index_documents.py

\* Filter: keep only similarity > 0.5
FloorNum == 1
FloorDen == 2

Chars == {"a", "b"}
TextsUpTo(n) == UNION {[1..k -> Chars] : k \in 0..n}

\* the query texts searched for
Queries == {<<>>, <<"a">>, <<"b">>}

Min(a, b) == IF a <= b THEN a ELSE b

\* text[from:to]
Slice(text, from, to) == SubSeq(text, from + 1, Min(to, Len(text)))

\* the layout without the overlap: every chunk starts where the last one ended
chunk_text_without_overlap(text) ==
    LET n == Len(text)
        count == IF n = 0 THEN 0
                 ELSE CHOOSE k \in 1..n :
                        /\ k * ChunkSize >= n
                        /\ \A j \in 1..(k - 1) : j * ChunkSize < n
    IN [i \in 1..count |-> Slice(text, (i - 1) * ChunkSize, i * ChunkSize)]

\* 1. Chunk Text: chunk i starts (size - overlap) characters after chunk i-1
\* and the last chunk is the first one that reaches the end of the text
chunk_text(text) ==
    LET n == Len(text)
        step == ChunkSize - ChunkOverlap
        count == IF n = 0 THEN 0
                 ELSE CHOOSE k \in 1..n :
                        /\ (k - 1) * step + ChunkSize >= n
                        /\ \A j \in 1..(k - 1) : (j - 1) * step + ChunkSize < n
    IN [i \in 1..count |-> Slice(text, (i - 1) * step, (i - 1) * step + ChunkSize)]

\* 2. Generate Embedding: the provider maps a text to a vector, the same text
\* always to the same vector; here the letter counts and a constant component
CountOf(text, c) == Cardinality({i \in 1..Len(text) : text[i] = c})
embed(text) == <<CountOf(text, "a"), CountOf(text, "b"), 1>>

Dot(v, w) == LET S[i \in 0..Len(v)] == IF i = 0 THEN 0 ELSE S[i - 1] + v[i] * w[i]
             IN S[Len(v)]

\* the dot product divided by the squared magnitude of the first vector alone
projection_on_first(vec1, vec2) ==
    [dot |-> Dot(vec1, vec2), sq1 |-> Dot(vec1, vec1), sq2 |-> Dot(vec1, vec1)]

\* cosine_similarity: dot / (sqrt(sq1) * sqrt(sq2)), kept exact as the three
\* integers it is computed from
cosine_similarity(vec1, vec2) ==
    [dot |-> Dot(vec1, vec2), sq1 |-> Dot(vec1, vec1), sq2 |-> Dot(vec2, vec2)]

\* x * |x|: comparing two similarities compares their signed squares
SignedSquare(x) == IF x < 0 THEN 0 - x * x ELSE x * x

\* similarity x > similarity y
Greater(x, y) ==
    SignedSquare(x.dot) * y.sq1 * y.sq2 > SignedSquare(y.dot) * x.sq1 * x.sq2

\* similarity x > 0.5
AboveFloor(x) ==
    FloorDen * FloorDen * SignedSquare(x.dot) > FloorNum * FloorNum * x.sq1 * x.sq2

\* similarity x >= 0.5
AtOrAboveFloor(x) ==
    FloorDen * FloorDen * SignedSquare(x.dot) >= FloorNum * FloorNum * x.sq1 * x.sq2

\* dividing by a zero magnitude raises ZeroDivisionError
Raises(x) == x.sq1 * x.sq2 = 0

\* two calls have the same outcome: both raise, or both return the same number
SameOutcome(x, y) ==
    IF Raises(x) \/ Raises(y) THEN Raises(x) /\ Raises(y)
    ELSE ~Greater(x, y) /\ ~Greater(y, x)

\* 3. Store in Database: one embeddings row per chunk, by INSERT
RECURSIVE StoreChunks(_, _, _, _)
StoreChunks(table, doc, chunks, i) ==
    IF i > Len(chunks) THEN table
    ELSE StoreChunks(InsertRow(table, [entity_type      |-> "documents",
                                       entity_id        |-> doc.id,
                                       chunk_index      |-> i - 1,
                                       chunk_text       |-> chunks[i],
                                       embedding_vector |-> embed(chunks[i])]),
                     doc, chunks, i + 1)

\* index one document: chunk, embed, store
index_document(d, doc) ==
    [d EXCEPT !.embeddings = StoreChunks(@, doc, chunk_text(doc.content), 1)]

\* Step 2: Calculate Similarity Scores, for every stored chunk vector
Scored(d, text) ==
    [i \in 1..Len(d.embeddings) |->
        [row              |-> d.embeddings[i],
         similarity_score |-> cosine_similarity(embed(text),
                                                d.embeddings[i].embedding_vector)]]

\* x goes ahead of every entry that is not greater than it
InsertSortedAhead(sorted, x) ==
    LET before == {i \in 1..Len(sorted) :
                     Greater(sorted[i].similarity_score, x.similarity_score)}
        k == IF before = {} THEN 0 ELSE CHOOSE i \in before : \A j \in before : j <= i
    IN SubSeq(sorted, 1, k) \o <<x>> \o SubSeq(sorted, k + 1, Len(sorted))

\* x goes behind every entry that is not smaller than it
InsertSorted(sorted, x) ==
    LET before == {i \in 1..Len(sorted) :
                     ~Greater(x.similarity_score, sorted[i].similarity_score)}
        k == IF before = {} THEN 0 ELSE CHOOSE i \in before : \A j \in before : j <= i
    IN SubSeq(sorted, 1, k) \o <<x>> \o SubSeq(sorted, k + 1, Len(sorted))

\* Sort chunks by similarity score (highest first)
RECURSIVE SortDescending(_)
SortDescending(scored) ==
    IF scored = <<>> THEN <<>>
    ELSE InsertSorted(SortDescending(SubSeq(scored, 1, Len(scored) - 1)),
                      scored[Len(scored)])

\* Step 4: Retrieve Source Documents
SearchResult(d, hit) ==
    LET doc == d.documents[hit.row.entity_id]
    IN [document_title   |-> doc.title,
        chunk_text       |-> hit.row.chunk_text,
        similarity_score |-> hit.similarity_score,
        metadata         |-> [carrier       |-> doc.metadata.carrier,
                              document_type |-> doc.document_type]]

\* the search without Step 3's limit
semantic_search_unlimited(d, text, limit) ==
    LET hits == SelectSeq(SortDescending(Scored(d, text)),
                          LAMBDA h : AboveFloor(h.similarity_score))
    IN [i \in 1..Len(hits) |-> SearchResult(d, hits[i])]

\* the search with a floor that lets a similarity of exactly 0.5 through
semantic_search_closed_floor(d, text, limit) ==
    LET kept == SelectSeq(SortDescending(Scored(d, text)),
                          LAMBDA h : AtOrAboveFloor(h.similarity_score))
        hits == SubSeq(kept, 1, Min(limit, Len(kept)))
    IN [i \in 1..Len(hits) |-> SearchResult(d, hits[i])]

\* Tool 4: semantic_search(query, limit): sort, filter, limit
semantic_search(d, text, limit) ==
    LET kept == SelectSeq(SortDescending(Scored(d, text)),
                          LAMBDA h : AboveFloor(h.similarity_score))
        hits == SubSeq(kept, 1, Min(limit, Len(kept)))
    IN [i \in 1..Len(hits) |-> SearchResult(d, hits[i])]

\* python index_documents.py: for each document in database
IndexDocument ==
    /\ SearchOnly
    /\ idxRuns < MaxIndexRuns
    /\ idxPos < Len(db.documents)
    /\ db' = index_document(db, db.documents[idxPos + 1])
    /\ IF idxPos + 1 = Len(db.documents)
       THEN idxPos' = 0 /\ idxRuns' = idxRuns + 1
       ELSE idxPos' = idxPos + 1 /\ UNCHANGED idxRuns
    /\ UNCHANGED <<query, results>>

Search(text, limit) ==
    /\ SearchOnly
    /\ query' = [text |-> text, limit |-> limit]
    /\ results' = semantic_search(db, text, limit)
    /\ UNCHANGED <<db, idxPos, idxRuns>>

\* the knowledge base the indexer runs on: research documents of any text
IndexKnowledgeBases ==
    {[scorecards          |-> <<>>,
      research            |-> <<ResearchFile(<<"protective", "life">>, "DR1", t1),
                                ResearchFile(<<"lincoln", "financial">>, "DR2", <<"b">>)>>,
      question_scorecards |-> <<>>,
      production          |-> <<>>,
      team                |-> TeamFile] : t1 \in TextsUpTo(MaxTextLen)}

IndexInit ==
    /\ ChatInit
    /\ kb \in IndexKnowledgeBases
    /\ db = load_all(EmptyStore, kb)
    /\ etlPc = "idle"
    /\ etlRuns = 1
    /\ etlCounts = <<Counts(db)>>
    /\ SearchIdle
    /\ NavIdle
    /\ WindowIdle
    /\ ServerIdle
    /\ CosineIdle
    /\ BatchIdle
    /\ FaultIdle
    /\ ChunkerIdle

IndexNext ==
    \/ IndexDocument
    \/ \E text \in Queries, limit \in 0..MaxLimit : Search(text, limit)

IndexSpec == IndexInit /\ [][IndexNext]_vars

-----------------------------------------------------------------------------
(* The indexing batch chunk by chunk, with an embedding provider that may fail *)

MaxAttempts == 2     \* embedding calls made for one chunk before it is given up

\* the document the batch is at, and its chunks
CurrentDocument == db.documents[idxPos + 1]
CurrentChunks == chunk_text(CurrentDocument.content)

\* a chunk left to embed in the current document
ChunkPending ==
    /\ idxRuns = 0
    /\ idxPos < Len(db.documents)
    /\ chunkPos < Len(CurrentChunks)

\* giving up on a chunk gives up on the rest of its document
abandon_document(pos, n) == n

\* the batch moves on to the next chunk
next_chunk(pos, n) == pos + 1

\* 2. Generate Embedding: the provider call fails and is tried again
EmbedFails ==
    /\ BatchOnly
    /\ ChunkPending
    /\ attempts < MaxAttempts
    /\ attempts' = attempts + 1
    /\ UNCHANGED <<db, idxPos, idxRuns, chunkPos, skipped>>

\* 2. Generate Embedding, 3. Store in Database: the call succeeds
EmbedSucceeds ==
    /\ BatchOnly
    /\ ChunkPending
    /\ attempts < MaxAttempts
    /\ db' = [db EXCEPT !.embeddings =
                 InsertRow(@, [entity_type      |-> "documents",
                               entity_id        |-> CurrentDocument.id,
                               chunk_index      |-> chunkPos,
                               chunk_text       |-> CurrentChunks[chunkPos + 1],
                               embedding_vector |-> embed(CurrentChunks[chunkPos + 1])])]
    /\ chunkPos' = next_chunk(chunkPos, Len(CurrentChunks))
    /\ attempts' = 0
    /\ UNCHANGED <<idxPos, idxRuns, skipped>>

\* the attempts are used up: the chunk is skipped and logged
SkipChunk ==
    /\ BatchOnly
    /\ ChunkPending
    /\ attempts = MaxAttempts
    /\ skipped' = Append(skipped, [entity_id   |-> CurrentDocument.id,
                                   chunk_index |-> chunkPos])
    /\ chunkPos' = next_chunk(chunkPos, Len(CurrentChunks))
    /\ attempts' = 0
    /\ UNCHANGED <<db, idxPos, idxRuns>>

\* 4. Repeat: the document is done, the batch goes on to the next one and ends
\* after the last
NextDocument ==
    /\ BatchOnly
    /\ idxRuns = 0
    /\ idxPos < Len(db.documents)
    /\ chunkPos = Len(CurrentChunks)
    /\ chunkPos' = 0
    /\ IF idxPos + 1 = Len(db.documents)
       THEN idxPos' = 0 /\ idxRuns' = idxRuns + 1
       ELSE idxPos' = idxPos + 1 /\ UNCHANGED idxRuns
    /\ UNCHANGED <<db, attempts, skipped>>

BatchNext ==
    \/ EmbedFails
    \/ EmbedSucceeds
    \/ SkipChunk
    \/ NextDocument

BatchSpec == IndexInit /\ [][BatchNext]_vars

\* the batch is a running program: it takes its next step
FairBatchSpec == BatchSpec /\ WF_vars(BatchNext)

-----------------------------------------------------------------------------
(* cosine_similarity on its own: any two vectors of the same dimension *)

Dimension == 2       \* components of a vector
MaxComponent == 2    \* largest absolute value of a component

Vectors == [1..Dimension -> (0 - MaxComponent)..MaxComponent]

\* the similarity of the pair, computed with either vector first
Compare ==
    /\ CosineOnly
    /\ similarity = <<>>
    /\ similarity' = <<cosine_similarity(vecA, vecB), cosine_similarity(vecB, vecA)>>
    /\ UNCHANGED <<vecA, vecB>>

CosineInit ==
    /\ ChatInit
    /\ StoreIdle
    /\ SearchIdle
    /\ NavIdle
    /\ WindowIdle
    /\ ServerIdle
    /\ BatchIdle
    /\ FaultIdle
    /\ ChunkerIdle
    /\ vecA \in Vectors
    /\ vecB \in Vectors
    /\ similarity = <<>>

CosineNext == Compare

CosineSpec == CosineInit /\ [][CosineNext]_vars

-----------------------------------------------------------------------------
(* chunk_text on its own: any text up to the longest document indexed *)

ChunkerOnly ==
    UNCHANGED <<chatVars, storeVars, searchVars, navVars, windowVars, serverVars,
                cosineVars, batchVars, faultVars>>

\* the chunker is called on the text and returns its chunks
ChunkText ==
    /\ ChunkerOnly
    /\ ~chunkOut.done
    /\ chunkOut' = [done |-> TRUE, chunks |-> chunk_text(docText)]
    /\ UNCHANGED docText

ChunkerInit ==
    /\ ChatInit
    /\ StoreIdle
    /\ SearchIdle
    /\ NavIdle
    /\ WindowIdle
    /\ ServerIdle
    /\ CosineIdle
    /\ BatchIdle
    /\ FaultIdle
    /\ docText \in TextsUpTo(MaxTextLen)
    /\ chunkOut = NotChunked

ChunkerNext == ChunkText

ChunkerSpec == ChunkerInit /\ [][ChunkerNext]_vars

-----------------------------------------------------------------------------
(***************************************************************************)
(* Part 4: the LLM Navigator (llm_navigator.py): its tools over the store, *)
(* the two operating modes and the conversation history.                   *)
(***************************************************************************)

MaxCommands == 2     \* stats, help and clear commands typed in a session
MaxNavTurns == 1     \* questions asked in one chat session

\* SQLite LIKE compares ASCII letters without regard to case
Lower(w) ==
    CASE w = "Protective" -> "protective"
      [] w = "Life"       -> "life"
      [] w = "Lincoln"    -> "lincoln"
      [] w = "Financial"  -> "financial"
      [] w = "Augusta"    -> "augusta"
      [] w = "Annuity"    -> "annuity"
      [] w = "Underwriting" -> "underwriting"
      [] w = "Medical"    -> "medical"
      [] OTHER            -> w

LowerAll(name) == [i \in 1..Len(name) |-> Lower(name[i])]

\* name LIKE '%pattern%'
Like(name, pattern) ==
    \E i \in 0..(Len(name) - Len(pattern)) :
        SubSeq(LowerAll(name), i + 1, i + Len(pattern)) = LowerAll(pattern)

RECURSIVE Flatten(_)
Flatten(seqs) == IF seqs = <<>> THEN <<>> ELSE Head(seqs) \o Flatten(Tail(seqs))

\* FROM documents d JOIN document_org_links dol ON d.id = dol.document_id
\*                  JOIN organizations o ON dol.organization_id = o.id
\* WHERE o.display_name LIKE '%{carrier_name}%': one row per matching link
CarrierRows(d, carrier_name) ==
    LET hit(l) == Like(d.organizations[l.organization_id].display_name, carrier_name)
        links == SelectSeq(d.document_org_links, hit)
    IN [i \in 1..Len(links) |-> d.documents[links[i].document_id]]

\* ... JOIN document_product_links dpl ON d.id = dpl.document_id
\*     JOIN products p ON dpl.product_id = p.id WHERE p.name LIKE '%{product_type}%'
ProductRows(d, docs, product_type) ==
    Flatten([i \in 1..Len(docs) |->
        LET hit(l) == /\ l.document_id = docs[i].id
                      /\ Like(<<d.products[l.product_id].name>>, <<product_type>>)
            links == SelectSeq(d.document_product_links, hit)
        IN [j \in 1..Len(links) |-> docs[i]]])

OfType(docs, type) == SelectSeq(docs, LAMBDA doc : doc.document_type = type)

\* what a tool hands back to the LLM: the rows found, or that nothing was found
ToolResult(rows) ==
    IF rows = <<>> THEN [status |-> "not_found", payload |-> <<>>]
    ELSE [status |-> "ok", payload |-> rows]

\* a tool that reports success whatever it found
ToolResultAlwaysOk(rows) == [status |-> "ok", payload |-> rows]

\* the listing with every document's content in it:
\* SELECT d.title, d.document_type, d.content
get_carrier_documents_with_content(d, carrier_name) ==
    LET rows == CarrierRows(d, carrier_name)
    IN ToolResult([i \in 1..Len(rows) |->
                      [title   |-> rows[i].title,
                       type    |-> rows[i].document_type,
                       content |-> rows[i].content]])

\* Tool 2: get_carrier_documents(carrier_name): the titles only; the SQL is
\* SELECT d.title, d.document_type, d.metadata, without d.content
get_carrier_documents(d, carrier_name) ==
    LET rows == CarrierRows(d, carrier_name)
    IN ToolResult([i \in 1..Len(rows) |->
                      [title |-> rows[i].title,
                       type  |-> rows[i].document_type]])

\* get_scorecard that reports success on zero rows
get_scorecard_empty_ok(d, carrier_name, product_type) ==
    LET rows == OfType(ProductRows(d, CarrierRows(d, carrier_name), product_type),
                       "carrier_scorecard")
    IN ToolResultAlwaysOk(IF rows = <<>> THEN <<>> ELSE <<rows[1].data>>)

\* Tool 3: get_scorecard(carrier_name, product_type): the scorecard document's
\* parsed content
get_scorecard(d, carrier_name, product_type) ==
    LET rows == OfType(ProductRows(d, CarrierRows(d, carrier_name), product_type),
                       "carrier_scorecard")
    IN ToolResult(IF rows = <<>> THEN <<>> ELSE <<rows[1].data>>)

\* get_production_history(carrier_name): production data of the carrier
get_production_history(d, carrier_name) ==
    LET rows == OfType(CarrierRows(d, carrier_name), "production_history")
    IN ToolResult(IF rows = <<>> THEN <<>> ELSE <<rows[1].data>>)

\* get_question_scorecard(question_name, product_type): all carriers' performance
\* on one question, ranked
get_question_scorecard(d, question_name, product_type) ==
    LET hit(doc) == /\ doc.document_type = "question_scorecard"
                    /\ Like(doc.metadata.question, question_name)
                    /\ Like(<<doc.metadata.product>>, <<product_type>>)
        rows == SelectSeq(d.documents, hit)
    IN ToolResult(IF rows = <<>> THEN <<>> ELSE <<rows[1].data>>)

\* get_role_perspective(role_name): goal and backstory of a role
get_role_perspective(d, role_name) ==
    LET rows == SelectSeq(d.roles, LAMBDA r : r.role_short_name = role_name)
    IN ToolResult([i \in 1..Len(rows) |->
                      [goal |-> rows[i].goal, backstory |-> rows[i].backstory]])

\* Tool 1: list_organizations(): SELECT display_name, name FROM organizations
\* (rows in table order: the names of the model carry no alphabetical order)
list_organizations(d) ==
    [status  |-> "ok",
     payload |-> [i \in 1..Len(d.organizations) |-> d.organizations[i].display_name]]

\* Tool 5: list_products(): SELECT name, product_type FROM products
list_products(d) ==
    [status  |-> "ok",
     payload |-> [i \in 1..Len(d.products) |-> d.products[i].name]]

\* Tool 6: list_roles(): SELECT role_name, role_short_name, goal FROM roles
list_roles(d) ==
    [status  |-> "ok",
     payload |-> [i \in 1..Len(d.roles) |->
                     [role  |-> d.roles[i].role_name,
                      short |-> d.roles[i].role_short_name,
                      goal  |-> d.roles[i].goal]]]

\* Tool 4 as the navigator calls it
semantic_search_tool(d, text, limit) ==
    [status |-> "ok", payload |-> semantic_search(d, text, limit)]

\* get_document_content(document_title, carrier_name): the documents whose
\* title matches, of the carrier if one is given, with their content cut to
\* ContentLimit characters
get_document_content(d, document_title, carrier_name) ==
    LET docs == IF carrier_name = <<>> THEN d.documents
                ELSE CarrierRows(d, carrier_name)
        rows == SelectSeq(docs, LAMBDA doc : Like(doc.title, document_title))
    IN ToolResult([i \in 1..Len(rows) |->
                      [title   |-> rows[i].title,
                       content |-> SubSeq(rows[i].content, 1,
                                          Min(ContentLimit, Len(rows[i].content)))]])

\* The questions asked: a carrier, possibly a product, possibly a named
\* evaluation question
AskedCarriers == {<<"Protective", "Life">>, <<"Financial">>, <<"Nonexistent">>}
AskedProducts == {"", "Life", "Pet"}
AskedQuestions == {<<>>, <<"Underwriting", "Medical">>, <<"Pricing">>}
\* the year the user asks about: none named, or the prior year
PriorYear == "2025"
AskedPeriods == {"", PriorYear}
UserQuestions ==
    [carrier : AskedCarriers, product : AskedProducts, question : AskedQuestions,
     period : AskedPeriods]

\* Mode selection of the schema prompt:
\*   MODE 2 triggers: "For [question], how did [carrier] perform?"
\*   MODE 1 triggers: "What was [carrier]'s [product] performance in 2026?"
\*   otherwise a general question: "Tell me about [carrier]"
Mode(q) ==
    IF q.question # <<>> THEN 2
    ELSE IF q.product # "" THEN 1
    ELSE 0

Call(tool, args) == [tool |-> tool, args |-> args]

\* a question that names no carrier: "What carriers do we have data for?",
\* "What products do we track?", "What does DR2 say about underwriting?"
GeneralQuestion == [carrier |-> <<>>, product |-> "", question |-> <<>>, period |-> ""]

\* the calls a general question leads to: the tools outside the two modes
GeneralPlan ==
    <<Call("list_organizations", <<>>),
      Call("list_products", <<>>),
      Call("list_roles", <<>>),
      Call("semantic_search", <<<<"a">>, MaxLimit>>),
      Call("get_document_content", <<<<"DR2">>, <<"Lincoln">>>>)>>

\* the product a Mode 2 question is about: Life unless the user names one
ProductOf(q) == IF q.product = "" THEN "Life" ELSE q.product

\* a Mode 1 plan that also assumes a role
PlanWithRoleInModeOne(q) ==
    CASE Mode(q) = 1 -> <<Call("get_role_perspective", <<"CPO">>),
                          Call("get_scorecard", <<q.carrier, q.product>>),
                          Call("get_production_history", <<q.carrier>>)>>
      [] Mode(q) = 2 -> <<Call("get_role_perspective", <<"CPO">>),
                          Call("get_question_scorecard", <<q.question, ProductOf(q)>>)>>
      [] Mode(q) = 0 /\ q.carrier = <<>> -> GeneralPlan
      [] OTHER       -> <<Call("get_carrier_documents", <<q.carrier>>)>>

\* a Mode 2 plan that fetches the question scorecard before assuming the role
PlanScorecardFirstInModeTwo(q) ==
    CASE Mode(q) = 1 -> <<Call("get_scorecard", <<q.carrier, q.product>>),
                          Call("get_production_history", <<q.carrier>>)>>
      [] Mode(q) = 2 -> <<Call("get_question_scorecard", <<q.question, ProductOf(q)>>),
                          Call("get_role_perspective", <<"CPO">>)>>
      [] Mode(q) = 0 /\ q.carrier = <<>> -> GeneralPlan
      [] OTHER       -> <<Call("get_carrier_documents", <<q.carrier>>)>>

\* the step-by-step process of each mode: the tool calls of a turn, in order
Plan(q) ==
    CASE Mode(q) = 1 -> <<Call("get_scorecard", <<q.carrier, q.product>>),
                          Call("get_production_history", <<q.carrier>>)>>
      [] Mode(q) = 2 -> <<Call("get_role_perspective", <<"CPO">>),
                          Call("get_question_scorecard", <<q.question, ProductOf(q)>>)>>
      [] Mode(q) = 0 /\ q.carrier = <<>> -> GeneralPlan
      [] OTHER       -> <<Call("get_carrier_documents", <<q.carrier>>)>>

\* _execute_tool: dispatch on the tool's name
execute_tool(d, c) ==
    CASE c.tool = "get_scorecard"          -> get_scorecard(d, c.args[1], c.args[2])
      [] c.tool = "get_production_history" -> get_production_history(d, c.args[1])
      [] c.tool = "get_role_perspective"   -> get_role_perspective(d, c.args[1])
      [] c.tool = "get_question_scorecard" ->
             get_question_scorecard(d, c.args[1], c.args[2])
      [] c.tool = "get_carrier_documents"  -> get_carrier_documents(d, c.args[1])
      [] c.tool = "list_organizations"     -> list_organizations(d)
      [] c.tool = "list_products"          -> list_products(d)
      [] c.tool = "list_roles"             -> list_roles(d)
      [] c.tool = "semantic_search"        ->
             semantic_search_tool(d, c.args[1], c.args[2])
      [] c.tool = "get_document_content"   ->
             get_document_content(d, c.args[1], c.args[2])

\* Chat Interface: captures user input, sends it to the LLM Navigator
Ask(q) ==
    /\ NavOnly
    /\ navPc = "idle"
    /\ navTurns < MaxNavTurns
    /\ navTurns' = navTurns + 1
    /\ ask' = q
    /\ calls' = <<>>
    /\ navPc' = "tools"
    /\ UNCHANGED <<history, shown, nCommands, inProgress, answers>>

\* the tool calls of the turn the LLM has decided on so far
Decided == Len(calls) + Cardinality(inProgress)

\* a dispatcher that starts a call while others are still running
may_dispatch_in_parallel(running) == TRUE

\* the dispatcher runs one tool at a time: the next call is started when no
\* call is running
may_dispatch(running) == running = {}

\* Step 2: the LLM decides on the next tool and its parameters, and the
\* dispatcher starts the call
DecideTool ==
    /\ NavOnly
    /\ navPc = "tools"
    /\ Decided < Len(Plan(ask))
    /\ may_dispatch(inProgress)
    /\ inProgress' = inProgress \cup {Decided + 1}
    /\ UNCHANGED <<navPc, ask, calls, navTurns, history, shown, nCommands, answers>>

\* Step 3: the tool is executed against the store and its result returned to
\* the LLM
ExecuteTool ==
    /\ NavOnly
    /\ navPc = "tools"
    /\ Len(calls) + 1 \in inProgress
    /\ LET c == Plan(ask)[Len(calls) + 1]
       IN calls' = Append(calls, [tool   |-> c.tool,
                                  args   |-> c.args,
                                  result |-> execute_tool(db, c)])
    /\ inProgress' = inProgress \ {Len(calls) + 1}
    /\ navPc' = IF Len(calls') = Len(Plan(ask)) THEN "synth" ELSE "tools"
    /\ UNCHANGED <<ask, navTurns, history, shown, nCommands, answers>>

\* the perspective of the answer: the role assumed, if any
Persona(cs) ==
    IF \E i \in 1..Len(cs) : cs[i].tool = "get_role_perspective" /\ cs[i].result.status = "ok"
    THEN "CPO" ELSE "general"

\* a prompt that has the LLM read the prior-year fields whatever was asked
prior_year_fields(period) == [score |-> "py_n_score", rank |-> "py_rank"]

\* the schema prompt's field mapping and rules: n_score / rank_current are the
\* 2026 data and are used by default, py_n_score / py_rank are the 2025 data and
\* are used only when the user asks about the prior year
score_fields(period) ==
    IF period = PriorYear THEN [score |-> "py_n_score", rank |-> "py_rank"]
    ELSE [score |-> "n_score", rank |-> "rank_current"]

\* the scores the answer shows: those of the scorecard the turn fetched, read
\* from the fields the prompt tells the LLM to use
Reported(cs, period) ==
    LET fetched == SelectSeq(cs, LAMBDA c : c.tool = "get_scorecard" /\ c.result.status = "ok")
        fields == score_fields(period)
    IN IF fetched = <<>> THEN <<>>
       ELSE LET questions == fetched[1].result.payload[1]
            IN [k \in 1..Len(questions) |->
                   [question |-> questions[k].question,
                    score    |-> questions[k][fields.score],
                    rank     |-> questions[k][fields.rank]]]

\* LLM synthesizes the response; conversation history updated for context
Synthesize ==
    /\ NavOnly
    /\ navPc = "synth"
    /\ history' = history \o
          <<[turn |-> navTurns, role |-> "user", content |-> ask],
            [turn |-> navTurns, role |-> "assistant",
             content |-> [persona |-> Persona(calls),
                          found   |-> [i \in 1..Len(calls) |-> calls[i].result.status],
                          scores  |-> Reported(calls, ask.period)]]>>
    /\ navPc' = "idle"
    /\ shown' = [cmd |-> "answer", output |-> <<>>]
    /\ answers' = answers + 1
    /\ UNCHANGED <<ask, calls, navTurns, nCommands, inProgress>>

\* a reset that keeps the conversation
keep_history(h) == h

\* clear: the conversation history is emptied
clear_history(h) == <<>>

\* stats: the database statistics, the number of rows of every table
stats(d) == Counts(d)

\* a command of the chat interface, typed at the prompt between two questions
Command(cmd, output) ==
    /\ NavOnly
    /\ navPc = "idle"
    /\ nCommands < MaxCommands
    /\ nCommands' = nCommands + 1
    /\ shown' = [cmd |-> cmd, output |-> output]
    /\ UNCHANGED <<inProgress, answers>>

StatsCommand ==
    /\ Command("stats", stats(db))
    /\ UNCHANGED <<navPc, ask, calls, navTurns, history>>

HelpCommand ==
    /\ Command("help", <<>>)
    /\ UNCHANGED <<navPc, ask, calls, navTurns, history>>

ClearCommand ==
    /\ Command("clear", <<>>)
    /\ history' = clear_history(history)
    /\ UNCHANGED <<navPc, ask, calls, navTurns>>

RECURSIVE index_all(_, _)
\* python index_documents.py run to its end: every document indexed in turn
index_all(d, i) ==
    IF i > Len(d.documents) THEN d
    ELSE index_all(index_document(d, d.documents[i]), i + 1)

\* the store the navigator is started on: loaded and indexed
LoadedStore == index_all(load_all(EmptyStore, FullKnowledgeBase), 1)

NavInit ==
    /\ ChatInit
    /\ kb = FullKnowledgeBase
    /\ db = LoadedStore
    /\ etlPc = "idle"
    /\ etlRuns = 1
    /\ etlCounts = <<Counts(load_all(EmptyStore, kb))>>
    /\ SearchIdle
    /\ NavIdle
    /\ WindowIdle
    /\ ServerIdle
    /\ CosineIdle
    /\ BatchIdle
    /\ FaultIdle
    /\ ChunkerIdle

NavNext ==
    \/ \E q \in UserQuestions \cup {GeneralQuestion} : Ask(q)
    \/ DecideTool
    \/ ExecuteTool
    \/ Synthesize
    \/ StatsCommand
    \/ HelpCommand
    \/ ClearCommand

NavSpec == NavInit /\ [][NavNext]_vars

-----------------------------------------------------------------------------
(***************************************************************************)
(* Part 5: the web chat window (ChatWindow.tsx): the middle panel routes   *)
(* every submitted message to one of two backends, and /sim switches the   *)
(* route.                                                                  *)
(***************************************************************************)

MaxTyped == 4       \* messages submitted in the web chat window

SimCommand == "/sim"
WindowInputs == {SimCommand, "q", "r"}

SimKbServer == "sim_kb_server"       \* HTTP POST localhost:5001/sim/chat
RainbowBridge == "rainbow_bridge"    \* the WebSocket of the normal chat

\* a toggle that only ever switches the mode on
EnterSimMode(mode) == TRUE

\* "Type /sim -> toggle ON; type /sim again -> toggle OFF"
ToggleSimMode(mode) == ~mode

\* if (isSimMode) fetch(.../sim/chat) else sendWebSocketMessage(messageValue)
Route(mode) == IF mode THEN SimKbServer ELSE RainbowBridge

\* the message handler of the chat window
sendMessage(messageValue) ==
    /\ Len(typedLog) < MaxTyped
    /\ typedLog' = Append(typedLog, messageValue)
    /\ IF messageValue = SimCommand
       THEN /\ isSimMode' = ToggleSimMode(isSimMode)
            /\ UNCHANGED sent
       ELSE /\ sent' = Append(sent, [n |-> Len(typedLog) + 1,
                                     text |-> messageValue,
                                     backend |-> Route(isSimMode)])
            /\ UNCHANGED isSimMode
    /\ WindowOnly

WindowInit ==
    /\ ChatInit
    /\ StoreIdle
    /\ SearchIdle
    /\ NavIdle
    /\ WindowIdle
    /\ ServerIdle
    /\ CosineIdle
    /\ BatchIdle
    /\ FaultIdle
    /\ ChunkerIdle

WindowNext == \E messageValue \in WindowInputs : sendMessage(messageValue)

WindowSpec == WindowInit /\ [][WindowNext]_vars

-----------------------------------------------------------------------------
(***************************************************************************)
(* Part 6: the SIM-KB server (sim_kb_server.py): POST /sim/chat runs a     *)
(* turn of the navigator on the history of the caller's session, POST      *)
(* /sim/reset clears that history.                                         *)
(***************************************************************************)

MaxServed == 4      \* requests the server handles

ServerMessages == {"q", "r"}

\* the two history entries a completed turn adds: role + text
TurnEntries(message) ==
    <<[role |-> "user", text |-> message],
      [role |-> "assistant", text |-> message]>>

\* one history for all sessions
shared_history(h, s) == h[1]

\* the history of session s
history_of(h, s) == h[s]

\* POST /sim/chat
sim_chat(s, message) ==
    /\ ServerOnly
    /\ Len(served) < MaxServed
    /\ LET context == history_of(sessionHistory, s)
       IN /\ served' = Append(served, [session |-> s, op |-> "chat",
                                       message |-> message, context |-> context])
          /\ sessionHistory' =
                [sessionHistory EXCEPT ![s] = context \o TurnEntries(message)]

\* POST /sim/reset
sim_reset(s) ==
    /\ ServerOnly
    /\ Len(served) < MaxServed
    /\ served' = Append(served, [session |-> s, op |-> "reset",
                                 message |-> "", context |-> <<>>])
    /\ sessionHistory' = [sessionHistory EXCEPT ![s] = <<>>]

ServerInit ==
    /\ ChatInit
    /\ StoreIdle
    /\ SearchIdle
    /\ NavIdle
    /\ WindowIdle
    /\ ServerIdle
    /\ CosineIdle
    /\ BatchIdle
    /\ FaultIdle
    /\ ChunkerIdle

ServerNext ==
    \/ \E s \in SessionIds, message \in ServerMessages : sim_chat(s, message)
    \/ \E s \in SessionIds : sim_reset(s)

ServerSpec == ServerInit /\ [][ServerNext]_vars

-----------------------------------------------------------------------------
(***************************************************************************)
(* The claims                                                              *)
(***************************************************************************)

\* The entries of turn t in the message list
EntriesOf(t) == {i \in 1..Len(messages) : messages[i].turn = t}

\* C1: the conversation history never holds a half-written turn: a turn that
\* failed has left no entry in the history.
C1_NoHalfWrittenTurn ==
    \A t \in Turns : turn[t].state = "failed" => EntriesOf(t) = {}

\* C2: whatever the query, the stored chunk vectors and the limit, the list
\* semantic_search returns has at most limit entries, every entry has a
\* similarity above 0.5, and the entries are in descending order of similarity.
C2_RankedFilteredLimited ==
    /\ Len(results) <= query.limit
    /\ \A i \in 1..Len(results) :
          LET x == results[i].similarity_score
          IN x.dot > 0 /\ 4 * x.dot * x.dot > x.sq1 * x.sq2
    /\ \A i \in 1..(Len(results) - 1) :
          LET x == results[i].similarity_score
              y == results[i + 1].similarity_score
          IN x.dot * x.dot * y.sq1 * y.sq2 >= y.dot * y.dot * x.sq1 * x.sq2

\* C2 witness: a search that had more chunks above the floor than its limit,
\* left a chunk at exactly 0.5 out, and returned entries of different similarity
C2_SearchCutToLimit ==
    /\ query.limit >= 2
    /\ Len(results) = query.limit
    /\ Greater(results[1].similarity_score, results[2].similarity_score)
    /\ Len(semantic_search_unlimited(db, query.text, query.limit)) > query.limit
    /\ Len(semantic_search_closed_floor(db, query.text, Len(db.embeddings)))
         > Len(semantic_search_unlimited(db, query.text, query.limit))

\* the embeddings rows of chunk k of document e
RowsOf(e, k) ==
    {i \in 1..Len(db.embeddings) :
        /\ db.embeddings[i].entity_id = e
        /\ db.embeddings[i].chunk_index = k}

IndexedOnce(e) ==
    \/ idxRuns = 0 /\ e <= idxPos
    \/ idxRuns = 1 /\ e > idxPos

\* the stored chunks of document e in chunk-index order
StoredChunks(e) ==
    LET n == Cardinality({i \in 1..Len(db.embeddings) : db.embeddings[i].entity_id = e})
    IN [k \in 1..n |-> db.embeddings[CHOOSE i \in RowsOf(e, k - 1) : TRUE].chunk_text]

\* the organizations whose display name matches a carrier name
MatchingOrganizations(name) ==
    {i \in 1..Len(db.organizations) :
        \E k \in 0..(Len(db.organizations[i].display_name) - Len(name)) :
            SubSeq(LowerAll(db.organizations[i].display_name), k + 1, k + Len(name))
                = LowerAll(name)}

CarrierTools == {"get_scorecard", "get_production_history", "get_carrier_documents"}

\* the entity a tool call names is not in the store
NamesNothing(c) ==
    \/ c.tool \in CarrierTools /\ MatchingOrganizations(c.args[1]) = {}
    \/ /\ c.tool = "get_scorecard"
       /\ \A i \in 1..Len(db.products) : db.products[i].name # c.args[2]
    \/ /\ c.tool = "get_question_scorecard"
       /\ \A i \in 1..Len(db.documents) : db.documents[i].metadata.question # c.args[1]
    \/ /\ c.tool = "get_role_perspective"
       /\ \A i \in 1..Len(db.roles) : db.roles[i].role_short_name # c.args[1]

\* the turn that was asked last has its answer in the history
Answered ==
    \E i \in 1..Len(history) : history[i].turn = navTurns /\ history[i].role = "assistant"

C6_AmbiguousNameReported ==
    \A i \in 1..Len(calls) :
        (/\ calls[i].tool \in CarrierTools
         /\ Cardinality(MatchingOrganizations(calls[i].args[1])) >= 2)
            => calls[i].result.status = "ambiguous"

CallsOf(tool) == {i \in 1..Len(calls) : calls[i].tool = tool}

RECURSIVE Reconstruct(_)
Reconstruct(chunks) ==
    IF chunks = <<>> THEN <<>>
    ELSE IF Len(chunks) = 1 THEN chunks[1]
    ELSE LET last == chunks[Len(chunks)]
         IN Reconstruct(SubSeq(chunks, 1, Len(chunks) - 1))
              \o SubSeq(last, ChunkOverlap + 1, Len(last))

\* C9: the chunks of a document, concatenated in chunk-index order after
\* removing the leading overlap of every chunk but the first, are the
\* document's text.
C9_ChunksReconstructText ==
    \A e \in 1..Len(db.documents) :
        IndexedOnce(e) => Reconstruct(StoredChunks(e)) = db.documents[e].content

\* C9 witness: a document of three chunks or more is indexed
C9_LongDocumentIndexed ==
    \E e \in 1..Len(db.documents) : IndexedOnce(e) /\ Len(StoredChunks(e)) >= 3

C10_EveryTurnTerminates ==
    \A t \in Turns :
        (turn[t].state = "pending") ~> (turn[t].state \in {"answered", "failed"})

\* the /sim commands among the first i submitted messages
SimCommandsIn(i) == Cardinality({j \in 1..i : typedLog[j] = SimCommand})

\* the requests the backends received for the i-th submitted message
RequestsFor(i) == {k \in 1..Len(sent) : sent[k].n = i}

\* C11: /sim toggles the mode and is never forwarded; every other message
\* reaches exactly one backend, the SIM-KB server when an odd number of /sim
\* commands precede it and the Rainbow Bridge otherwise; after an even number
\* of /sim commands the window is in normal mode again.
C11_RoutedByModeAtSendTime ==
    /\ \A i \in 1..Len(typedLog) :
          IF typedLog[i] = SimCommand
          THEN RequestsFor(i) = {}
          ELSE /\ Cardinality(RequestsFor(i)) = 1
               /\ \A k \in RequestsFor(i) :
                     /\ sent[k].text = typedLog[i]
                     /\ sent[k].backend =
                           (IF SimCommandsIn(i) % 2 = 1 THEN SimKbServer
                                                        ELSE RainbowBridge)
    /\ isSimMode = (SimCommandsIn(Len(typedLog)) % 2 = 1)

\* /sim, a question, /sim again, another question: one request each
C11_InAndOutOfSimMode ==
    /\ Len(typedLog) = 4
    /\ typedLog[1] = SimCommand
    /\ typedLog[2] # SimCommand
    /\ typedLog[3] = SimCommand
    /\ typedLog[4] # SimCommand
    /\ Len(sent) = 2
    /\ sent[1].backend = SimKbServer
    /\ sent[2].backend = RainbowBridge
    /\ ~isSimMode

\* the tools the current turn has executed
ToolsCalled == {calls[i].tool : i \in 1..Len(calls)}

\* C12: nothing on the query path changes the Graph Store: whatever turns,
\* tool calls and stats, help and clear commands have happened, the entities,
\* links and embeddings are those the navigator was started on.
C12_QueryPathLeavesStore == db = LoadedStore

\* a session in which the tools outside the two modes, semantic search among
\* them, have run over an indexed store, after an earlier turn and commands
C12_QueriedStore ==
    /\ navTurns = MaxNavTurns
    /\ nCommands = MaxCommands
    /\ navPc = "idle"
    /\ ToolsCalled = {"list_organizations", "list_products", "list_roles",
                      "semantic_search", "get_document_content"}
    /\ \A i \in 1..Len(calls) : calls[i].result.status = "ok"
    /\ calls[4].result.payload # <<>>
    /\ db.embeddings # <<>>

\* C13: clear leaves the conversation history empty, and stats reports the
\* counts of the store alone: the same counts whatever turns and clear
\* commands came before it.
C13_ClearEmptiesStatsReadsStore ==
    /\ shown.cmd = "clear" => history = <<>>
    /\ shown.cmd = "stats" => shown.output = Counts(LoadedStore)

\* stats typed after a turn and the clear that followed it
C13_StatsAfterTurnAndClear ==
    /\ shown.cmd = "stats"
    /\ navPc = "idle"
    /\ navTurns = 1
    /\ nCommands = 2
    /\ history = <<>>

\* the turns session s completed among the first n requests since its last
\* reset, in order
RECURSIVE TurnsSinceClear(_, _)
TurnsSinceClear(s, n) ==
    IF n = 0 THEN <<>>
    ELSE IF served[n].session # s THEN TurnsSinceClear(s, n - 1)
    ELSE IF served[n].op = "reset" THEN <<>>
    ELSE TurnsSinceClear(s, n - 1) \o TurnEntries(served[n].message)

\* C14: the history supplied to the navigator for a turn of session s is
\* exactly the ordered list of the turns completed in s since its last clear,
\* whatever the other sessions did in between; and so is the history kept.
C14_SessionsAreIsolated ==
    /\ \A n \in 1..Len(served) :
          served[n].op = "chat" =>
              served[n].context = TurnsSinceClear(served[n].session, n - 1)
    /\ \A s \in SessionIds : sessionHistory[s] = TurnsSinceClear(s, Len(served))

\* a second turn of one session served after a turn and a reset of another
C14_InterleavedSessions ==
    /\ Len(served) = 4
    /\ served[1].op = "chat" /\ served[1].session = 1
    /\ served[2].op = "chat" /\ served[2].session = 2
    /\ served[3].op = "reset" /\ served[3].session = 2
    /\ served[4].op = "chat" /\ served[4].session = 1
    /\ served[4].context = TurnEntries(served[1].message)
    /\ sessionHistory[2] = <<>>

\* C15: cosine similarity is symmetric: for any two vectors of the same
\* dimension, similarity(a, b) and similarity(b, a) are the same number (or
\* both fail on a zero vector).
C15_CosineSymmetric ==
    similarity # <<>> => SameOutcome(similarity[1], similarity[2])

\* two vectors of different magnitudes at an obtuse angle have been compared
C15_ComparedUnequalVectors ==
    /\ similarity # <<>>
    /\ ~Raises(similarity[1])
    /\ similarity[1].dot < 0
    /\ similarity[1].sq1 # similarity[1].sq2

\* the results of a search whose ties are in stored order: the chunks above
\* the floor, chunk j ahead of chunk i when it has a higher score, or the same
\* score and was stored earlier
StableRanking(d, text, limit) ==
    LET scored == Scored(d, text)
        score(i) == scored[i].similarity_score
        kept == {i \in 1..Len(scored) : AboveFloor(score(i))}
        ahead(j, i) == Greater(score(j), score(i))
                          \/ (~Greater(score(i), score(j)) /\ j < i)
        rank(i) == 1 + Cardinality({j \in kept \ {i} : ahead(j, i)})
    IN [k \in 1..Min(limit, Cardinality(kept)) |->
           SearchResult(d, scored[CHOOSE i \in kept : rank(i) = k])]

\* C16: among search results with equal similarity scores, the results are
\* in the order in which their chunks were stored: every search returns the
\* ranking by descending score with ties in stored order.
C16_TiesInStoredOrder ==
    [][(query' # query \/ results' # results)
          => results' = StableRanking(db', query'.text, query'.limit)]_vars

\* a search has returned two different chunks with the same score
C16_TiedResults ==
    /\ Len(results) = 2
    /\ SameOutcome(results[1].similarity_score, results[2].similarity_score)
    /\ results[1].chunk_text # results[2].chunk_text

\* the chunk of document doc with index i (counted from 0) is stored
ChunkStored(doc, i) ==
    \E j \in RowsOf(doc.id, i) :
        db.embeddings[j].chunk_text = chunk_text(doc.content)[i + 1]

\* the chunk of document doc with index i has been given up and logged
ChunkSkipped(doc, i) ==
    \E k \in 1..Len(skipped) :
        skipped[k] = [entity_id |-> doc.id, chunk_index |-> i]

\* the chunks the batch has dealt with: all of them once it has ended
Handled(n) ==
    IF idxRuns > 0 THEN Len(chunk_text(db.documents[n].content))
    ELSE IF n <= idxPos THEN Len(chunk_text(db.documents[n].content))
    ELSE IF n = idxPos + 1 THEN chunkPos
    ELSE 0

\* C17: a chunk whose embedding call keeps failing is retried a bounded number
\* of times and then skipped: the attempts never pass the bound, every chunk
\* the batch has dealt with is stored unless it was skipped, and the batch
\* comes to its end.
C17_FailingChunkSkippedBatchEnds ==
    /\ [](/\ attempts <= MaxAttempts
          /\ \A n \in 1..Len(db.documents) : \A i \in 0..(Handled(n) - 1) :
                ChunkStored(db.documents[n], i) \/ ChunkSkipped(db.documents[n], i))
    /\ <>(idxRuns = 1)

\* the batch has ended with a chunk skipped and a later chunk of the same
\* document stored
C17_SkippedOneStoredOthers ==
    /\ idxRuns = 1
    /\ \E k \in 1..Len(skipped) : \E j \in 1..Len(db.embeddings) :
          /\ db.embeddings[j].entity_id = skipped[k].entity_id
          /\ db.embeddings[j].chunk_index > skipped[k].chunk_index

Entities == UNION {{<<t, i>> : i \in 1..Len(db[t])} : t \in EntityTables}

\* the identifier of an entity
HemlixIdOf(e) == db[e[1]][e[2]].hemlix_id

\* the registry rows that hold a given identifier
RegistryRowsOf(hemlix_id) ==
    {k \in 1..Len(db.hemlix_registry) : db.hemlix_registry[k].hemlix_id = hemlix_id}

\* no two entities share an identifier, and the registry holds exactly one row
\* per entity, mapping its identifier to its table and row id
IdentifiersRegistered ==
    /\ \A e1, e2 \in Entities : e1 # e2 => HemlixIdOf(e1) # HemlixIdOf(e2)
    /\ \A e \in Entities :
          /\ Cardinality(RegistryRowsOf(HemlixIdOf(e))) = 1
          /\ \A k \in RegistryRowsOf(HemlixIdOf(e)) :
                /\ db.hemlix_registry[k].entity_type = e[1]
                /\ db.hemlix_registry[k].entity_id = db[e[1]][e[2]].id
    /\ Len(db.hemlix_registry) = Cardinality(Entities)

\* a step leaves every entity its identifier
IdentifiersKept ==
    \A t \in EntityTables : \A i \in 1..Len(db[t]) :
        /\ i <= Len(db'[t])
        /\ db'[t][i].hemlix_id = db[t][i].hemlix_id

\* C19: in every reachable store state the identifiers are unique across all
\* entities and the registry holds exactly one row per entity, mapping its
\* identifier to its (entity_type, entity_id); and no step changes an
\* identifier once it is assigned.
C19_IdentifiersUniqueStableRegistered ==
    /\ []IdentifiersRegistered
    /\ [][IdentifiersKept]_vars

\* the loader has run twice over a knowledge base with entities of every kind
C19_ReloadedStore ==
    /\ etlRuns = 2
    /\ Len(db.organizations) >= 2
    /\ Len(db.documents) >= 2
    /\ Len(db.roles) >= 2
    /\ Len(db.products) >= 2

\* the documents loaded from the source file with the given path
DocumentsOf(path) == {i \in 1..Len(db.documents) : db.documents[i].file_path = path}

Warned(path) == \E k \in 1..Len(warnings) : warnings[k] = path

\* C20: a malformed source file is skipped with a warning and every
\* well-formed file is still loaded; the load fails as a whole only when the
\* role fixtures cannot be read.
C20_BadFilesSkippedRestLoaded ==
    /\ etlPc = "failed" => TeamPath \in broken
    /\ (etlRuns >= 1 /\ etlPc = "idle") =>
          /\ TeamPath \notin broken
          /\ Len(db.roles) = Len(kb.team)
          /\ \A path \in SourcePaths(kb) :
                IF path \in broken
                THEN DocumentsOf(path) = {} /\ Warned(path)
                ELSE Cardinality(DocumentsOf(path)) = 1 /\ ~Warned(path)

\* a load has ended with one scorecard and one research file skipped and the
\* other files loaded
C20_LoadedAroundBadFiles ==
    /\ etlRuns = 1
    /\ etlPc = "idle"
    /\ Len(warnings) = 2
    /\ \E i, j \in 1..Len(kb.scorecards) :
          /\ kb.scorecards[i].path \in broken
          /\ kb.scorecards[j].path \notin broken
          /\ DocumentsOf(kb.scorecards[j].path) # {}
    /\ \E i \in 1..Len(kb.research) : kb.research[i].path \in broken

\* C21: within a turn at most one tool call is in progress at any time, a call
\* is started only after every earlier call of the turn has returned, and
\* every user message has exactly one synthesized response once its turn is
\* over (and none before).
C21_OneToolAtATimeOneResponse ==
    /\ Cardinality(inProgress) <= 1
    /\ \A i \in inProgress : i = Len(calls) + 1
    /\ answers = IF navPc = "idle" THEN navTurns ELSE navTurns - 1

\* a turn of several tool calls, the second running after the first returned
C21_SecondCallRunning ==
    /\ navPc = "tools"
    /\ Len(calls) = 1
    /\ inProgress = {2}
    /\ Len(Plan(ask)) > 2

\* the scorecard files of the knowledge base about a carrier and a product
ScorecardFilesOf(carrier_name, product_type) ==
    {f \in Range(kb.scorecards) :
        /\ Like(DisplayName(f.carrier), carrier_name)
        /\ Like(<<f.product>>, <<product_type>>)}

\* the successful get_scorecard calls of the current turn
ScorecardCalls == {i \in CallsOf("get_scorecard") : calls[i].result.status = "ok"}

\* the answer of the turn that has just ended
LastAnswer == history[Len(history)].content

DependencyOrder ==
    <<"idle", "products", "organizations", "roles", "carrier_scorecards",
      "question_scorecards", "research", "production_history", "links", "idle">>

\* the carriers the loader makes organizations of: those with a scorecard file
CarriersOf(files) == {f.carrier : f \in Range(files.scorecards)}

\* every document in the store has the rows of the product and of the
\* organization it refers to, where the loader loads such a product or
\* organization at all
DocumentsAfterTheirEntities ==
    \A i \in 1..Len(db.documents) :
        LET doc == db.documents[i]
        IN /\ doc.metadata.carrier \in CarriersOf(kb) =>
                  FindId(db.organizations, "name", doc.metadata.carrier) # 0
           /\ doc.metadata.product \in Range(ProductTypes) =>
                  FindId(db.products, "name", doc.metadata.product) # 0

\* every link row joins two rows that exist
LinksAfterTheirEntities ==
    /\ \A i \in 1..Len(db.document_org_links) :
          /\ db.document_org_links[i].document_id \in 1..Len(db.documents)
          /\ db.document_org_links[i].organization_id \in 1..Len(db.organizations)
    /\ \A i \in 1..Len(db.document_product_links) :
          /\ db.document_product_links[i].document_id \in 1..Len(db.documents)
          /\ db.document_product_links[i].product_id \in 1..Len(db.products)

\* the loader moves from a step to the next one of the dependency order
StepsInDependencyOrder ==
    etlPc' # etlPc =>
        \E k \in 1..(Len(DependencyOrder) - 1) :
            etlPc = DependencyOrder[k] /\ etlPc' = DependencyOrder[k + 1]

\* C23: the loader runs its steps in dependency order (products,
\* organizations, roles, carrier scorecards, question scorecards, research,
\* production history, links); in every state of a run each document in the
\* store has the product and organization rows it refers to, and each link row
\* joins a document and an entity that exist.
C23_LoadedInDependencyOrder ==
    /\ [](DocumentsAfterTheirEntities /\ LinksAfterTheirEntities)
    /\ [][StepsInDependencyOrder]_vars

\* a first run that has loaded documents of carriers and products and linked them
C23_LoadedAndLinked ==
    /\ etlRuns = 1 /\ etlPc = "idle"
    /\ Len(db.organizations) > 1
    /\ \E i \in 1..Len(db.documents) : db.documents[i].document_type = "research"
    /\ db.document_org_links # <<>>
    /\ db.document_product_links # <<>>

ReconnectScheduled == timers' > timers

\* a connection opens in this step
ConnectionOpens == \E s \in Sockets : sock[s] = "CONNECTING" /\ sock'[s] = "OPEN"

\* what a step may do to the reconnect schedule and to the attempt counter
ReconnectDiscipline ==
    /\ ReconnectScheduled =>
          /\ \E s \in Sockets : sock[s] # "FREE" /\ sock'[s] = "FREE"
          /\ lastCloseCode' # NormalClosure
          /\ reconnectAttempts < maxReconnectAttempts
          /\ reconnectAttempts' = reconnectAttempts + 1
    /\ ConnectionOpens => reconnectAttempts' = 0
    /\ reconnectAttempts = maxReconnectAttempts => ~ReconnectScheduled

\* C25: reconnectAttempts never exceeds maxReconnectAttempts (5); a reconnect
\* is scheduled only by a close event whose code is not 1000, only while
\* reconnectAttempts is below 5, and counts as one more attempt; the counter
\* is 0 again when a connection opens; with 5 attempts counted no further one
\* is scheduled.
C25_ReconnectsBounded ==
    /\ [](reconnectAttempts \in 0..maxReconnectAttempts)
    /\ [][ReconnectDiscipline]_vars

\* the fifth reconnect in a row has failed and nothing is scheduled
C25_GaveUpAfterFiveReconnects ==
    /\ reconnectAttempts = maxReconnectAttempts
    /\ lastCloseCode = AbnormalClosure
    /\ timers = 0
    /\ \A s \in Sockets : sock[s] = "FREE"

\* C26: after disconnect(), and until connect() is called again, the service
\* opens no socket: this.ws stays null and the status is never 'connecting'.
C26_StaysDisconnected ==
    lastCall = "disconnect" => (ws = 0 /\ svcStatus # "connecting")

\* the sendMessage calls whose promise resolved with a response
Resolved == {t \in Turns : turn[t].state = "answered"}

\* C27: every sendMessage promise that resolves does so with the response to
\* its own request, and no response resolves the promises of two calls.
C27_OwnResponseOnly ==
    /\ \A t \in Resolved : turn[t].got = t
    /\ \A t, u \in Resolved : turn[t].got = turn[u].got => t = u

\* the WebSocket objects that are connecting or open
LiveSockets == {s \in Sockets : sock[s] \in {"CONNECTING", "OPEN"}}

\* C28: the service has at most one live WebSocket at any time, and whenever
\* its status is 'connected' this.ws holds a socket and that socket is open.
C28_OneLiveSocket ==
    /\ Cardinality(LiveSockets) <= 1
    /\ svcStatus = "connected" => (ws # 0 /\ sock[ws] = "OPEN")

\* C29: whenever isLoading is true it is eventually false again: the screen
\* does not stay in the loading state forever.
C29_LoadingEnds == isLoading ~> ~isLoading

\* the requests in flight: sent, their promise not settled
InFlight == {t \in Turns : turn[t].state = "pending"}

\* C30: at most one request is in flight at a time, and every assistant
\* message in the list directly follows the user message it answers.
C30_OneRequestInFlight ==
    /\ Cardinality(InFlight) <= 1
    /\ \A i \in 1..Len(messages) :
          messages[i].role = "assistant" =>
              /\ i > 1
              /\ messages[i - 1].role = "user"
              /\ messages[i - 1].turn = messages[i].turn

=============================================================================
